---- MODULE Spec2Model ----
(***************************************************************************)
(* Vertical datum transformation (depth_trans_ver.py).                     *)
(*                                                                         *)
(* Lengths are counted in units of 2^-11 m and held in a binary floating   *)
(* point format of MantBits significant bits (float64 scaled down), so     *)
(* every sum and difference rounds to nearest, ties to even.  A float is   *)
(* <<n>> (the number n units) or <<>> (NaN).  Longitudes and latitudes are *)
(* whole degrees.                                                          *)
(***************************************************************************)
EXTENDS Integers, Sequences, FiniteSets, TLC

\* ------------------------------------------------------------------ bounds
MantBits == 3      \* significant bits of the floating point format
MaxPts   == 2      \* longest coordinate array handed to transform_values
MaxWarm  == 1      \* height queries made before the transform under study
MaxRows  == 2      \* most lines of a bulk input file

\* --------------------------------------------------------------- constants
NSurface  == 8
Ellipsoid == 7
LON_MIN == 118
LON_MAX == 125
LAT_MIN == 21
LAT_MAX == 27

SurfaceIdx == 0 .. (NSurface - 1)
FileIdx    == 0 .. (NSurface - 2)

\* ------------------------------------------------------- float64 arithmetic
NaN == << >>
F(n) == << n >>
IsNaN(x) == x = << >>
Abs(n) == IF n < 0 THEN -n ELSE n

RECURSIVE Pow2(_)
Pow2(k) == IF k = 0 THEN 1 ELSE 2 * Pow2(k - 1)

\* num/den rounded to the nearest integer, ties to even (den > 0)
RoundQ(num, den) ==
    LET a  == Abs(num)
        q  == a \div den
        r  == a % den
        up == (2 * r > den) \/ (2 * r = den /\ q % 2 = 1)
        m  == IF up THEN q + 1 ELSE q
    IN  IF num < 0 THEN -m ELSE m

RECURSIVE Quantum(_, _)
Quantum(a, q) == IF a \div q < Pow2(MantBits) THEN q ELSE Quantum(a, 2 * q)

\* an integer rounded to MantBits significant bits
RoundMant(x) == LET q == Quantum(Abs(x), 1) IN RoundQ(x, q) * q

Representable(x) == RoundMant(x) = x

FAdd(x, y) == IF IsNaN(x) \/ IsNaN(y) THEN NaN ELSE F(RoundMant(x[1] + y[1]))
FSub(x, y) == IF IsNaN(x) \/ IsNaN(y) THEN NaN ELSE F(RoundMant(x[1] - y[1]))
FNeg(x)    == IF IsNaN(x) THEN NaN ELSE F(-x[1])
\* (num/den) * v, the weight num/den being exact
FMulQ(num, den, v) ==
    IF IsNaN(v) THEN NaN ELSE F(RoundMant(RoundQ(num * v[1], den)))

\* ------------------------------------------------------------ control files
\* A line of an .xyz file: ntok whitespace separated tokens, bad when one of
\* the first three is no float; lon, lat, v are the parsed fields.
Line(lon, lat, v) == [ntok |-> 3, bad |-> FALSE, lon |-> lon, lat |-> lat, v |-> v]
ShortLine == [ntok |-> 2, bad |-> FALSE, lon |-> 0, lat |-> 0, v |-> NaN]
BadLine   == [ntok |-> 3, bad |-> TRUE,  lon |-> 0, lat |-> 0, v |-> NaN]

Missing == [exists |-> FALSE, lines |-> << >>]
File(ls) == [exists |-> TRUE, lines |-> ls]

HBig == Pow2(MantBits)

\* three control points on the corners (120,22) (124,22) (120,26)
Tri(va, vb, vc) ==
    File(<< Line(120, 22, va), ShortLine, Line(124, 22, vb), BadLine,
            Line(120, 26, vc) >>)

World1 ==
    [s \in FileIdx |->
        CASE s = 0 -> Tri(F(4), F(8), F(0))
          [] s = 1 -> Tri(F(8), F(4), F(4))
          [] s = 2 -> Tri(NaN, F(4), F(8))
          [] s = 3 -> File(<< Line(121, 23, F(4)) >>)
          [] s = 4 -> Missing
          [] s = 5 -> File(<< BadLine, ShortLine >>)
          [] s = 6 -> Tri(F(HBig), F(HBig), F(-4)) ]

WorldNone == [s \in FileIdx |-> Missing]

Worlds == {World1, WorldNone}

\* ------------------------------------------------------------- IO helpers
GoodLine(l) == l.ntok >= 3 /\ ~l.bad

\* the three columns of the parsed rows
Columns(rows) ==
    [lon |-> [i \in 1 .. Len(rows) |-> rows[i].lon],
     lat |-> [i \in 1 .. Len(rows) |-> rows[i].lat],
     val |-> [i \in 1 .. Len(rows) |-> rows[i].v]]

\* read_llv_from_file: the three columns of the lines that parse
read_llv_from_file(file) == Columns(SelectSeq(file.lines, GoodLine))

InRangeOpen(lon, lat) ==
    lon > LON_MIN /\ lon < LON_MAX /\ lat > LAT_MIN /\ lat < LAT_MAX

\* line 94: the mask of check_range
InRange(lon, lat) ==
    lon >= LON_MIN /\ lon <= LON_MAX /\ lat >= LAT_MIN /\ lat <= LAT_MAX

\* the indices of idx (increasing) whose row satisfies / fails the mask
RECURSIVE Where(_, _, _, _)
Where(lon, lat, want, i) ==
    IF i > Len(lon) THEN << >>
    ELSE IF InRange(lon[i], lat[i]) = want
         THEN << i >> \o Where(lon, lat, want, i + 1)
         ELSE Where(lon, lat, want, i + 1)

Take(a, idx) == [k \in 1 .. Len(idx) |-> a[idx[k]]]

\* lines 95-97: the rows inside, and the indices of the rows outside
Split(lon, lat, value, idx_in, idx_out) ==
    [lon |-> Take(lon, idx_in), lat |-> Take(lat, idx_in),
     value |-> Take(value, idx_in), idx_out |-> idx_out]

check_range(lon, lat, value) ==
    Split(lon, lat, value, Where(lon, lat, TRUE, 1), Where(lon, lat, FALSE, 1))

\* --------------------------------------------------- dictionaries and caches
PutNextKey(d, k, v) ==
    [x \in (DOMAIN d) \cup {(k + 1) % NSurface} |->
        IF x = (k + 1) % NSurface THEN v ELSE d[x]]

\* d[k] = v
Put(d, k, v) == [x \in (DOMAIN d) \cup {k} |-> IF x = k THEN v ELSE d[x]]
EmptyDict == << >>

\* Python's None
None == [none |-> TRUE]

Raise(e, c) == [ok |-> FALSE, err |-> e, val |-> << >>, c |-> c]
Return(v, c) == [ok |-> TRUE, err |-> "", val |-> v, c |-> c]

\* lines 112-113: the points P and the heights V of the columns read
AsPoints(t) ==
    [P |-> [i \in 1 .. Len(t.lon) |-> << t.lon[i], t.lat[i] >>], V |-> t.val]

\* lru_cache keeps what load_surface_points returned for s
StorePoints(c, s, r) == Return(r, [c EXCEPT !.points = Put(c.points, s, r)])

\* load_surface_points under lru_cache: a raised exception is not cached
load_surface_points(fs, c, s) ==
    IF s \in DOMAIN c.points THEN Return(c.points[s], c)
    ELSE IF s = Ellipsoid THEN StorePoints(c, s, [P |-> << >>, V |-> << >>])
    ELSE IF ~fs[s].exists THEN Raise("FileNotFoundError", c)
    ELSE StorePoints(c, s, AsPoints(read_llv_from_file(fs[s])))

\* ------------------------------------------------------ scipy interpolators
Cross(a, b, q) == (b[1] - a[1]) * (q[2] - a[2]) - (b[2] - a[2]) * (q[1] - a[1])

\* LinearNDInterpolator(P, V): the Delaunay triangulation needs three points
\* that are not on one line; the data sets here are of at most one triangle
LinearNDInterpolator(P, V) ==
    IF Len(P) = 0 THEN [ok |-> FALSE, err |-> "ValueError", obj |-> << >>]
    ELSE IF Len(P) < 3 \/ Cross(P[1], P[2], P[3]) = 0
         THEN [ok |-> FALSE, err |-> "QhullError", obj |-> << >>]
    ELSE [ok |-> TRUE, err |-> "", obj |-> [P |-> P, V |-> V]]

\* the interpolant at q: NaN outside the hull, else sum of c[j] * V[j]
LinearEval(obj, q) ==
    LET a == obj.P[1]
        b == obj.P[2]
        c == obj.P[3]
        d0 == Cross(a, b, c)
        sg == IF d0 < 0 THEN -1 ELSE 1
        d  == sg * d0
        na == sg * Cross(q, b, c)
        nb == sg * Cross(a, q, c)
        nc == sg * Cross(a, b, q)
    IN  IF na < 0 \/ nb < 0 \/ nc < 0 THEN NaN
        ELSE FAdd(FAdd(FAdd(F(0), FMulQ(na, d, obj.V[1])),
                       FMulQ(nb, d, obj.V[2])),
                  FMulQ(nc, d, obj.V[3]))

NearestNDInterpolator(P, V) ==
    IF Len(P) = 0 THEN [ok |-> FALSE, err |-> "ValueError", obj |-> << >>]
    ELSE [ok |-> TRUE, err |-> "", obj |-> [P |-> P, V |-> V]]

Dist2(a, q) == (a[1] - q[1]) * (a[1] - q[1]) + (a[2] - q[2]) * (a[2] - q[2])

\* the value of the control point nearest to q (first one on a tie)
NearestEval(obj, q) ==
    LET n == Len(obj.P)
        j == CHOOSE j \in 1 .. n :
                \A k \in 1 .. n :
                    \/ Dist2(obj.P[j], q) < Dist2(obj.P[k], q)
                    \/ Dist2(obj.P[j], q) = Dist2(obj.P[k], q) /\ j <= k
    IN  obj.V[j]

\* --------------------------------------------- interpolators with a cache
\* line 124: _LINEAR_CACHE[s] = the interpolator b just built
StoreLinear(c, s, b) ==
    IF ~b.ok THEN Raise(b.err, c)
    ELSE Return(b.obj, [c EXCEPT !.linear = Put(c.linear, s, b.obj)])

\* lines 123-124: the interpolator of the points l that were loaded
BuildLinear(s, l) ==
    IF ~l.ok THEN l
    ELSE StoreLinear(l.c, s, LinearNDInterpolator(l.val.P, l.val.V))

get_linear_interp(fs, c, s) ==
    IF s = Ellipsoid THEN Return(None, c)
    ELSE IF s \in DOMAIN c.linear THEN Return(c.linear[s], c)
    ELSE BuildLinear(s, load_surface_points(fs, c, s))

\* line 132: _NEAREST_CACHE[s] = the interpolator b just built
StoreNearest(c, s, b) ==
    IF ~b.ok THEN Raise(b.err, c)
    ELSE Return(b.obj, [c EXCEPT !.nearest = Put(c.nearest, s, b.obj)])

\* lines 131-132: the interpolator of the points l that were loaded
BuildNearest(s, l) ==
    IF ~l.ok THEN l
    ELSE StoreNearest(l.c, s, NearestNDInterpolator(l.val.P, l.val.V))

get_nearest_interp(fs, c, s) ==
    IF s = Ellipsoid THEN Return(None, c)
    ELSE IF s \in DOMAIN c.nearest THEN Return(c.nearest[s], c)
    ELSE BuildNearest(s, load_surface_points(fs, c, s))

AnyNaN(z) == \E i \in 1 .. Len(z) : IsNaN(z[i])

\* np.where(np.isnan(z), z_nn, z)
FillNaN(z, z_nn) == [i \in 1 .. Len(z) |-> IF IsNaN(z[i]) THEN z_nn[i] ELSE z[i]]

IsEllipsoidNever(s) == FALSE

\* line 137: the Ellipsoid is answered without any interpolant
IsEllipsoid(s) == s = Ellipsoid

\* lines 144-146: z_nn = nn(XY); z = np.where(np.isnan(z), z_nn, z)
\* calling None (lin(...) or nn(...)) is a TypeError
NearestFill(XY, z, n) ==
    IF ~n.ok THEN n
    ELSE IF n.val = None THEN Raise("TypeError", n.c)
    ELSE Return(FillNaN(z, [i \in 1 .. Len(XY) |-> NearestEval(n.val, XY[i])]),
                n.c)

\* line 143: if np.isnan(z).any(): the nearest interpolant is asked for
NearestPass(fs, c, s, XY, z) ==
    IF ~AnyNaN(z) THEN Return(z, c)
    ELSE NearestFill(XY, z, get_nearest_interp(fs, c, s))

\* line 140: z = lin(XY[:, 0], XY[:, 1])
LinearPass(fs, s, XY, g) ==
    IF ~g.ok THEN g
    ELSE IF g.val = None THEN Raise("TypeError", g.c)
    ELSE NearestPass(fs, g.c, s, XY,
                     [i \in 1 .. Len(XY) |-> LinearEval(g.val, XY[i])])

interp_surface_with_fallback(fs, c, s, XY) ==
    IF IsEllipsoid(s) THEN Return([i \in 1 .. Len(XY) |-> F(0)], c)
    ELSE LinearPass(fs, s, XY, get_linear_interp(fs, c, s))

\* ------------------------------------------------------------ core transform
DepthShiftSwapped(v, h_in, h_out) == FAdd(v, FSub(h_in, h_out))
DepthShiftSum(v, h_in, h_out) == FAdd(v, FAdd(h_out, h_in))
DepthShiftNanToZero(v, h_in, h_out) ==
    IF IsNaN(FSub(h_out, h_in)) THEN v ELSE FAdd(v, FSub(h_out, h_in))

\* line 171: d_out = d_in + (H_out - H_in)
DepthShift(v, h_in, h_out) == FAdd(v, FSub(h_out, h_in))
\* line 174: d_out = H_out - h_bed
BedToDepth(v, h_in, h_out) == FSub(h_out, v)

\* lines 169-177: the new values by value kind, with the two heights
ApplyKind(values, kind, H_in, ho) ==
    IF ~ho.ok THEN ho
    ELSE IF kind = "DEPTH"
         THEN Return([new |-> [i \in 1 .. Len(values) |->
                          DepthShift(values[i], H_in[i], ho.val[i])],
                      H_in |-> H_in, H_out |-> ho.val], ho.c)
    ELSE IF kind = "ELLI_BED"
         THEN Return([new |-> [i \in 1 .. Len(values) |->
                          BedToDepth(values[i], H_in[i], ho.val[i])],
                      H_in |-> H_in, H_out |-> ho.val], ho.c)
    ELSE Raise("ValueError", ho.c)

\* line 167: H_out, interpolated once H_in has been
HeightOut(fs, out, XY, values, kind, hi) ==
    IF ~hi.ok THEN hi
    ELSE ApplyKind(values, kind, hi.val,
                   interp_surface_with_fallback(fs, hi.c, out, XY))

\* line 166: H_in at the points XY
HeightIn(fs, c, in, out, XY, values, kind) ==
    HeightOut(fs, out, XY, values, kind,
              interp_surface_with_fallback(fs, c, in, XY))

transform_values(fs, c, in, out, lon, lat, values, kind) ==
    HeightIn(fs, c, in, out, [i \in 1 .. Len(lon) |-> << lon[i], lat[i] >>],
             values, kind)

\* ------------------------------------------------------- bulk file worker
UnitsPerMetre == Pow2(11)

\* f"{v:8.3f}", or the text NaN: sign and thousandths of a metre
Fmt3(x) ==
    IF IsNaN(x) THEN [text |-> "NaN", neg |-> FALSE, milli |-> 0]
    ELSE [text |-> "8.3f", neg |-> x[1] < 0,
          milli |-> RoundQ(Abs(x[1]) * 1000, UnitsPerMetre)]

\* f"{lo:11.7f}": whole degrees print with seven zero decimals
Fmt7(deg) == [deg |-> deg, frac7 |-> 0]

write_llvn(lon, lat, value1, value2) ==
    [i \in 1 .. Len(lon) |->
        [lon |-> Fmt7(lon[i]), lat |-> Fmt7(lat[i]),
         v1 |-> Fmt3(value1[i]), v2 |-> Fmt3(value2[i])]]

NoFile == [exists |-> FALSE, rows |-> << >>]
Written(rows) == [exists |-> TRUE, rows |-> rows]

\* the number of indices of idx_out below i
RECURSIVE Masked(_, _, _)
Masked(idx_out, i, k) ==
    IF k > Len(idx_out) THEN 0
    ELSE (IF idx_out[k] < i THEN 1 ELSE 0) + Masked(idx_out, i, k + 1)

IsMasked(idx_out, i) == \E k \in 1 .. Len(idx_out) : idx_out[k] = i

\* lines 220-224: new_full = full(n, nan); mask[idx_out] = False;
\* new_full[mask] = new_in
MaskFill(n, idx_out, new_in) ==
    [i \in 1 .. n |->
        IF IsMasked(idx_out, i) THEN NaN
        ELSE new_in[i - Masked(idx_out, i, 1)]]

Signal(success, text, n, err) ==
    [success |-> success, text |-> text, n |-> n, err |-> err]

OkMessage(n_out) ==
    IF n_out = 1 THEN Signal(TRUE, "OK!  (There is 1 point outside the range)", 1, "")
    ELSE IF n_out > 1
         THEN Signal(TRUE, "OK!  (There are N points outside the range)", n_out, "")
    ELSE Signal(TRUE, "OK!", 0, "")

ExceptEscapes(e) == << >>

\* lines 238-239: except Exception as e: self.finished.emit(False, ...)
ExceptException(e) == << Signal(FALSE, "Error: ", 0, e) >>

RunResult(sig, out, c, calls) ==
    [finished |-> sig, out_file |-> out, c |-> c, xf_calls |-> calls]

SizePositiveAlways(n) == TRUE

\* line 214: if lon_in.size > 0
SizePositive(n) == n > 0

\* lines 228-236: the output file is written and finished(True, ...) emitted;
\* dsk tells what os.makedirs and open find: "ok", "readonly" (they raise) or
\* "full" (the file is created, writing raises)
RunWrite(dsk, t, r, c, calls, new_full) ==
    IF dsk = "readonly"
    THEN RunResult(ExceptException("PermissionError"), NoFile, c, calls)
    ELSE IF dsk = "full"
    THEN RunResult(ExceptException("OSError"), Written(<< >>), c, calls)
    ELSE RunResult(<< OkMessage(Len(r.idx_out)) >>,
                   Written(write_llvn(t.lon, t.lat, t.val, new_full)), c, calls)

\* lines 215-226: what transform_values returned x fills the rows inside
RunEngine(dsk, t, r, calls, x) ==
    IF ~x.ok THEN RunResult(ExceptException(x.err), NoFile, x.c, calls)
    ELSE RunWrite(dsk, t, r, x.c, calls,
                  MaskFill(Len(t.lon), r.idx_out, x.val.new))

\* lines 212-226: the rows r inside the range go through transform_values
RunRange(fs, c, w, dsk, t, r) ==
    IF SizePositive(Len(r.lon))
    THEN RunEngine(dsk, t, r,
                   << [lon |-> r.lon, lat |-> r.lat, values |-> r.value] >>,
                   transform_values(fs, c, w.input_surface_idx,
                                    w.output_surface_idx, r.lon, r.lat, r.value,
                                    w.input_value_type))
    ELSE RunWrite(dsk, t, r, c, << >>, [i \in 1 .. Len(t.lon) |-> NaN])

\* lines 205-210: the columns t that were read
RunRows(fs, c, w, dsk, t) ==
    IF Len(t.lon) = 0
    THEN RunResult(<< Signal(FALSE, "Input file is empty or invalid.", 0, "") >>,
                   NoFile, c, << >>)
    ELSE RunRange(fs, c, w, dsk, t, check_range(t.lon, t.lat, t.val))

\* FileTransformWorker.run
run(fs, c, w, file, dsk) ==
    IF ~file.exists
    THEN RunResult(ExceptException("FileNotFoundError"), NoFile, c, << >>)
    ELSE RunRows(fs, c, w, dsk, read_llv_from_file(file))

\* -------------------------------------------------------------- main window
Dash == [text |-> "-", neg |-> FALSE, tenthmilli |-> 0]

\* f"{v:.4f}"
Fmt4(x) ==
    IF IsNaN(x) THEN [text |-> "nan", neg |-> FALSE, tenthmilli |-> 0]
    ELSE [text |-> ".4f", neg |-> x[1] < 0,
          tenthmilli |-> RoundQ(Abs(x[1]) * 10000, UnitsPerMetre)]

\* MainWindow.__init__
MainWindow ==
    [input_surface_idx |-> 0, output_surface_idx |-> 1,
     cmb_in_surface |-> 0, cmb_out_surface |-> 1, cmb_valtype |-> 0,
     lbl_single_in_nick |-> 0, lbl_single_out_nick |-> 1,
     lbl_single_out_val |-> Dash,
     btn_file_transform |-> TRUE, lbl_file_status |-> ""]

update_nick_labels(u) ==
    [u EXCEPT !.lbl_single_in_nick = u.input_surface_idx,
              !.lbl_single_out_nick = u.output_surface_idx]

NextSurfaceStay(idx) == idx

\* (idx + 1) % len(Surface)
NextSurface(idx) == (idx + 1) % NSurface

RECURSIVE on_in_surface_changed(_, _)
RECURSIVE on_out_surface_changed(_, _)

\* QComboBox.setCurrentIndex: a new index is shown and currentIndexChanged
\* runs the connected handler before the call returns
cmb_in_setCurrentIndex(u, idx) ==
    IF u.cmb_in_surface = idx THEN u
    ELSE on_in_surface_changed([u EXCEPT !.cmb_in_surface = idx], idx)

cmb_out_setCurrentIndex(u, idx) ==
    IF u.cmb_out_surface = idx THEN u
    ELSE on_out_surface_changed([u EXCEPT !.cmb_out_surface = idx], idx)

on_in_surface_changed(u, idx) ==
    LET u1 == [u EXCEPT !.input_surface_idx = idx]
    IN  IF u1.input_surface_idx = u1.output_surface_idx
        THEN LET new_out == NextSurface(u1.output_surface_idx)
                 u2 == cmb_out_setCurrentIndex(u1, new_out)
             IN  update_nick_labels([u2 EXCEPT !.output_surface_idx = new_out])
        ELSE update_nick_labels(u1)

on_out_surface_changed(u, idx) ==
    LET u1 == [u EXCEPT !.output_surface_idx = idx]
    IN  IF u1.input_surface_idx = u1.output_surface_idx
        THEN LET new_in == NextSurface(u1.input_surface_idx)
                 u2 == cmb_in_setCurrentIndex(u1, new_in)
             IN  update_nick_labels([u2 EXCEPT !.input_surface_idx = new_in])
        ELSE update_nick_labels(u1)

ValueType(u) == IF u.cmb_valtype = 0 THEN "DEPTH" ELSE "ELLI_BED"

\* ------------------------------------------------------------------ state
VARIABLES
    files,      \* the surface data files under file/, fixed for the session
    cache,      \* lru_cache of load_surface_points and the two interpolator dicts
    warm,       \* height queries made so far
    call,       \* the latest call of the core and what it returned
    orig,       \* the forward transform that the latest call reverses
    worker,     \* the FileTransformWorker: its constructor arguments
    in_file,    \* the bulk input file at input_path
    disk,       \* what writing under output_dir will meet
    out_file,   \* the file at output_dir/output_name
    finished,   \* the finished(success, message) signals emitted so far
    xf_calls,   \* the coordinate and value arrays handed to transform_values
    ui,         \* MainWindow: the stored indices and the widgets
    moved,      \* the dropdown that the latest change handler moved itself
    thr         \* per thread: where it stands in transform_values, its locals

xfVars   == << warm, call, orig >>
bulkVars == << worker, in_file, disk, out_file, finished, xf_calls >>
uiVars   == << ui, moved >>
vars == << files, cache, xfVars, bulkVars, uiVars, thr >>

NoWorker == [started |-> FALSE]

Threads == {"ui", "worker"}

\* the locals of a thread inside transform_values
Locals ==
    [pc |-> "idle", in |-> 0, out |-> 0, XY |-> << >>, values |-> << >>,
     kind |-> "DEPTH", side |-> "in", ret |-> "", PV |-> None, obj |-> None,
     lin |-> None, nn |-> None, z |-> << >>, H_in |-> << >>, H_out |-> << >>,
     new |-> << >>, err |-> "", t |-> None, idx_out |-> << >>]

NoThreads == [t \in Threads |-> Locals]

NoCache == [points |-> EmptyDict, linear |-> EmptyDict, nearest |-> EmptyDict]
NoCall  == [op |-> "none"]

\* ------------------------------------------------------------ query inputs
QPoints == << << 120, 22 >>, << 121, 23 >>, << 123, 22 >>, << 125, 21 >> >>
QList(k, n) == [i \in 1 .. n |-> QPoints[((k + i - 2) % Len(QPoints)) + 1]]
QLists == { QList(k, n) : k \in 1 .. Len(QPoints), n \in 1 .. MaxPts }
VList(b, n) == [i \in 1 .. n |-> F(b + 2 * (i - 1))]
ValueKinds == {"DEPTH", "ELLI_BED", "OTHER"}

Lon(XY) == [i \in 1 .. Len(XY) |-> XY[i][1]]
Lat(XY) == [i \in 1 .. Len(XY) |-> XY[i][2]]

\* ------------------------------------------------- calls of the core (SpecXf)
InitXf ==
    /\ files \in Worlds
    /\ cache = NoCache
    /\ warm = 0
    /\ call = NoCall
    /\ orig = NoCall
    /\ worker = NoWorker
    /\ in_file = Missing
    /\ disk = "ok"
    /\ out_file = NoFile
    /\ finished = << >>
    /\ xf_calls = << >>
    /\ ui = MainWindow
    /\ moved = "none"
    /\ thr = NoThreads

\* no transform made yet
Idle == call.op \in {"none", "height"}

\* height_at(s, XY)
Height(s, XY) ==
    /\ Idle
    /\ warm < MaxWarm
    /\ \E r \in {interp_surface_with_fallback(files, cache, s, XY)} :
           /\ cache' = r.c
           /\ call' = [op |-> "height", s |-> s, XY |-> XY,
                       ok |-> r.ok, err |-> r.err, z |-> r.val]
    /\ warm' = warm + 1
    /\ UNCHANGED << files, orig, bulkVars, uiVars, thr >>

TransformRecord(in, out, XY, values, kind, r) ==
    [op |-> "transform", in |-> in, out |-> out, XY |-> XY,
     values |-> values, kind |-> kind, ok |-> r.ok, err |-> r.err,
     new  |-> IF r.ok THEN r.val.new ELSE << >>,
     H_in |-> IF r.ok THEN r.val.H_in ELSE << >>,
     H_out |-> IF r.ok THEN r.val.H_out ELSE << >>]

\* transform(in, out, XY, values, kind)
Transform(in, out, XY, values, kind) ==
    /\ Idle
    /\ \E r \in {transform_values(files, cache, in, out, Lon(XY), Lat(XY),
                                  values, kind)} :
           /\ cache' = r.c
           /\ call' = TransformRecord(in, out, XY, values, kind, r)
    /\ UNCHANGED << files, warm, orig, bulkVars, uiVars, thr >>

\* the result of a DEPTH transform sent back from the output to the input surface
Reverse ==
    /\ call.op = "transform" /\ call.ok /\ call.kind = "DEPTH"
    /\ orig = NoCall
    /\ \E r \in {transform_values(files, cache, call.out, call.in,
                                  Lon(call.XY), Lat(call.XY), call.new, "DEPTH")} :
           /\ cache' = r.c
           /\ call' = TransformRecord(call.out, call.in, call.XY, call.new,
                                      "DEPTH", r)
    /\ orig' = call
    /\ UNCHANGED << files, warm, bulkVars, uiVars, thr >>

HLists == { QList(2, 1), QList(4, MaxPts) }

NextXf ==
    \/ /\ Idle /\ warm < MaxWarm
       /\ \E s \in SurfaceIdx, XY \in HLists : Height(s, XY)
    \/ /\ Idle
       /\ \E in \in SurfaceIdx, out \in SurfaceIdx, XY \in QLists, b \in {1, 2},
             kind \in ValueKinds :
               Transform(in, out, XY, VList(b, Len(XY)), kind)
    \/ Reverse

SpecXf == InitXf /\ [][NextXf]_vars

\* ------------------------------------------------ bulk transform (SpecBulk)
InputLines ==
    { Line(121, 23, F(1)), Line(118, 27, F(2)), Line(125, 21, F(3)),
      Line(126, 21, F(1)), Line(118, 28, F(2)), BadLine, ShortLine }

RECURSIVE SeqsUpTo(_, _)
SeqsUpTo(S, n) ==
    IF n = 0 THEN { << >> }
    ELSE LET shorter == SeqsUpTo(S, n - 1)
         IN  shorter \cup { Append(q, x) : q \in shorter, x \in S }

InputFiles == { File(ls) : ls \in SeqsUpTo(InputLines, MaxRows) } \cup { Missing }

InitBulk ==
    /\ files \in Worlds
    /\ cache = NoCache
    /\ warm = 0 /\ call = NoCall /\ orig = NoCall
    /\ worker = NoWorker
    /\ in_file \in InputFiles
    /\ disk \in {"ok", "readonly", "full"}
    /\ out_file = NoFile
    /\ finished = << >>
    /\ xf_calls = << >>
    /\ ui = MainWindow
    /\ moved = "none"
    /\ thr = NoThreads

\* FileTransformWorker(...).start()
StartWorker(in, out, kind) ==
    /\ ~worker.started
    /\ worker' = [started |-> TRUE, done |-> FALSE,
                  input_surface_idx |-> in, output_surface_idx |-> out,
                  input_value_type |-> kind]
    /\ UNCHANGED << files, cache, xfVars, in_file, disk, out_file, finished,
                    xf_calls, uiVars, thr >>

\* FileTransformWorker.run
Run ==
    /\ worker.started /\ ~worker.done
    /\ \E r \in {run(files, cache, worker, in_file, disk)} :
          /\ cache' = r.c
          /\ out_file' = r.out_file
          /\ finished' = finished \o r.finished
          /\ xf_calls' = xf_calls \o r.xf_calls
    /\ worker' = [worker EXCEPT !.done = TRUE]
    /\ UNCHANGED << files, xfVars, in_file, disk, uiVars, thr >>

NextBulk ==
    \/ \E in \in SurfaceIdx, out \in SurfaceIdx, kind \in {"DEPTH", "ELLI_BED"} :
          StartWorker(in, out, kind)
    \/ Run

SpecBulk == InitBulk /\ [][NextBulk]_vars

\* ------------------------------------------------------ the window (SpecUI)
InitUI ==
    /\ files \in Worlds
    /\ cache = NoCache
    /\ warm = 0 /\ call = NoCall /\ orig = NoCall
    /\ worker = NoWorker
    /\ in_file = Missing
    /\ disk = "ok"
    /\ out_file = NoFile
    /\ finished = << >>
    /\ xf_calls = << >>
    /\ ui = MainWindow
    /\ moved = "none"
    /\ thr = NoThreads

uiFrame ==
    << files, cache, xfVars, in_file, disk, out_file, finished, xf_calls, thr >>

\* the user picks entry idx of the input dropdown
PickInput(idx) ==
    /\ idx # ui.cmb_in_surface
    /\ ui' = cmb_in_setCurrentIndex(ui, idx)
    /\ moved' = IF idx = ui.output_surface_idx THEN "out" ELSE "none"
    /\ UNCHANGED << uiFrame, worker >>

\* the user picks entry idx of the output dropdown
PickOutput(idx) ==
    /\ idx # ui.cmb_out_surface
    /\ ui' = cmb_out_setCurrentIndex(ui, idx)
    /\ moved' = IF idx = ui.input_surface_idx THEN "in" ELSE "none"
    /\ UNCHANGED << uiFrame, worker >>

PickValueType(k) ==
    /\ k # ui.cmb_valtype
    /\ ui' = [ui EXCEPT !.cmb_valtype = k]
    /\ UNCHANGED << uiFrame, worker, moved >>

\* do_file_transform: the three text fields must be filled
DoFileTransform(in_path, out_dir, out_name) ==
    /\ ui.btn_file_transform
    /\ in_path # "" /\ out_dir # "" /\ out_name # ""
    /\ ui' = [ui EXCEPT !.btn_file_transform = FALSE,
                        !.lbl_file_status = "Running..."]
    /\ worker' = [started |-> TRUE, done |-> FALSE,
                  input_surface_idx |-> ui.input_surface_idx,
                  output_surface_idx |-> ui.output_surface_idx,
                  input_value_type |-> ValueType(ui)]
    /\ UNCHANGED << uiFrame, moved >>

\* on_file_finished(success, message), when the worker's signal arrives
OnFileFinished(success, message) ==
    /\ worker.started /\ ~worker.done
    /\ worker' = [worker EXCEPT !.done = TRUE]
    /\ ui' = [ui EXCEPT !.btn_file_transform = TRUE,
                        !.lbl_file_status = message]
    /\ UNCHANGED << uiFrame, moved >>

NextUI ==
    \/ \E idx \in SurfaceIdx : PickInput(idx)
    \/ \E idx \in SurfaceIdx : PickOutput(idx)
    \/ \E k \in {0, 1} : PickValueType(k)
    \/ \E in_path \in {"", "in.xyz"}, out_dir \in {"", "out"},
          out_name \in {"", "output.xyz"} :
            DoFileTransform(in_path, out_dir, out_name)
    \/ \E success \in BOOLEAN :
          OnFileFinished(success, IF success THEN "OK!" ELSE "Error: ")

SpecUI == InitUI /\ [][NextUI]_vars

\* C10: after any sequence of dropdown changes the stored input and output
\* indices differ and each equals the index its dropdown shows, so no worker
\* is ever started with the same surface on both sides.
C10_SurfacesDiffer ==
    /\ ui.input_surface_idx # ui.output_surface_idx
    /\ ui.cmb_in_surface = ui.input_surface_idx
    /\ ui.cmb_out_surface = ui.output_surface_idx
    /\ worker.started => worker.input_surface_idx # worker.output_surface_idx

C10_Witness ==
    /\ moved = "in"
    /\ ui.output_surface_idx = Ellipsoid
    /\ ui.input_surface_idx = 0 /\ ui.cmb_in_surface = 0
    /\ worker.started /\ worker.input_surface_idx = 2

\* ------------------------------------- two threads in the core (SpecConc)
\* Each step is one access to a shared dictionary, one file read or one
\* interpolator call, which is all a thread does between two points where
\* the interpreter may switch threads.
ConcPairs == { << 0, 1 >>, << 1, 0 >>, << 2, 0 >>, << 0, 7 >>, << 3, 0 >>, << 4, 1 >> }

ConcFiles ==
    { File(<< Line(121, 23, F(1)), Line(126, 21, F(1)), Line(125, 21, F(3)) >>),
      File(<< Line(120, 22, F(2)) >>) }

Selected(pr) ==
    [MainWindow EXCEPT !.input_surface_idx = pr[1], !.cmb_in_surface = pr[1],
                       !.lbl_single_in_nick = pr[1],
                       !.output_surface_idx = pr[2], !.cmb_out_surface = pr[2],
                       !.lbl_single_out_nick = pr[2]]

\* a worker has been started under one selection, the window shows another
InitConc ==
    /\ files = World1
    /\ cache = NoCache
    /\ warm = 0 /\ call = NoCall /\ orig = NoCall
    /\ \E pr \in ConcPairs :
          worker = [started |-> TRUE, done |-> FALSE,
                    input_surface_idx |-> pr[1], output_surface_idx |-> pr[2],
                    input_value_type |-> "DEPTH"]
    /\ in_file \in ConcFiles
    /\ disk = "ok"
    /\ out_file = NoFile
    /\ finished = << >>
    /\ xf_calls = << >>
    /\ \E pr \in ConcPairs :
          ui = [Selected(pr) EXCEPT !.btn_file_transform = FALSE,
                                    !.lbl_file_status = "Running..."]
    /\ moved = "none"
    /\ thr = [NoThreads EXCEPT !["worker"].pc = "run"]

concFrame == << files, xfVars, worker, in_file, disk, moved >>

Cur(l) == IF l.side = "in" THEN l.in ELSE l.out

\* an exception leaves transform_values: the slot of the window ends with
\* it, the worker catches it and emits finished(False, ...)
Fail(t, e) ==
    /\ thr' = [thr EXCEPT ![t].pc = IF t = "ui" THEN "failed" ELSE "done",
                          ![t].err = e]
    /\ finished' = IF t = "worker" THEN finished \o ExceptException(e)
                                   ELSE finished
    /\ UNCHANGED << cache, out_file, xf_calls, ui >>

Goto(t, l) ==
    /\ thr' = [thr EXCEPT ![t] = l]
    /\ UNCHANGED << cache, out_file, finished, xf_calls, ui >>

\* interp_surface_with_fallback returns z
Returned(l, z) ==
    IF l.side = "in" THEN [l EXCEPT !.H_in = z, !.side = "out", !.pc = "interp"]
                     ELSE [l EXCEPT !.H_out = z, !.pc = "combine"]

\* do_single_transform up to the call of transform_values
ClickSingle(lon, lat, val) ==
    /\ thr["ui"].pc = "idle"
    /\ LON_MIN <= lon /\ lon <= LON_MAX /\ LAT_MIN <= lat /\ lat <= LAT_MAX
    /\ Goto("ui", [Locals EXCEPT !.pc = "interp",
                     !.in = ui.input_surface_idx, !.out = ui.output_surface_idx,
                     !.XY = << << lon, lat >> >>, !.values = << val >>,
                     !.kind = ValueType(ui)])
    /\ UNCHANGED concFrame

\* run up to the call of transform_values
RunBegin ==
    /\ thr["worker"].pc = "run"
    /\ LET t == read_llv_from_file(in_file)
           r == check_range(t.lon, t.lat, t.val)
           l == [Locals EXCEPT !.in = worker.input_surface_idx,
                               !.out = worker.output_surface_idx,
                               !.XY = [i \in 1 .. Len(r.lon) |->
                                          << r.lon[i], r.lat[i] >>],
                               !.values = r.value,
                               !.kind = worker.input_value_type,
                               !.t = t, !.idx_out = r.idx_out]
       IN  IF ~in_file.exists THEN Fail("worker", "FileNotFoundError")
           ELSE IF Len(t.lon) = 0
           THEN /\ thr' = [thr EXCEPT !["worker"].pc = "done"]
                /\ finished' = finished \o
                      << Signal(FALSE, "Input file is empty or invalid.", 0, "") >>
                /\ UNCHANGED << cache, out_file, xf_calls, ui >>
           ELSE IF SizePositive(Len(r.lon))
           THEN /\ thr' = [thr EXCEPT !["worker"] = [l EXCEPT !.pc = "interp"]]
                /\ xf_calls' = Append(xf_calls,
                      [lon |-> r.lon, lat |-> r.lat, values |-> r.value])
                /\ UNCHANGED << cache, out_file, finished, ui >>
           ELSE Goto("worker", [l EXCEPT !.pc = "finish"])
    /\ UNCHANGED concFrame

\* line 137
Interp(t) ==
    /\ thr[t].pc = "interp"
    /\ IF IsEllipsoid(Cur(thr[t]))
       THEN Goto(t, Returned(thr[t], [i \in 1 .. Len(thr[t].XY) |-> F(0)]))
       ELSE Goto(t, [thr[t] EXCEPT !.pc = "lin_check"])
    /\ UNCHANGED concFrame

\* line 122: if surface_idx not in _interpolators_linear
LinCheck(t) ==
    /\ thr[t].pc = "lin_check"
    /\ IF Cur(thr[t]) \in DOMAIN cache.linear
       THEN Goto(t, [thr[t] EXCEPT !.pc = "lin_get"])
       ELSE Goto(t, [thr[t] EXCEPT !.pc = "pts_lookup", !.ret = "lin_build"])
    /\ UNCHANGED concFrame

\* lru_cache looks the key up
PtsLookup(t) ==
    /\ thr[t].pc = "pts_lookup"
    /\ IF Cur(thr[t]) \in DOMAIN cache.points
       THEN Goto(t, [thr[t] EXCEPT !.PV = cache.points[Cur(thr[t])],
                                   !.pc = thr[t].ret])
       ELSE Goto(t, [thr[t] EXCEPT !.pc = "pts_read"])
    /\ UNCHANGED concFrame

\* lines 108-114: the body of load_surface_points
PtsRead(t) ==
    /\ thr[t].pc = "pts_read"
    /\ IF ~files[Cur(thr[t])].exists THEN Fail(t, "FileNotFoundError")
       ELSE LET d == read_llv_from_file(files[Cur(thr[t])])
                r == [P |-> [i \in 1 .. Len(d.lon) |-> << d.lon[i], d.lat[i] >>],
                      V |-> d.val]
            IN  Goto(t, [thr[t] EXCEPT !.PV = r, !.pc = "pts_store"])
    /\ UNCHANGED concFrame

\* lru_cache keeps the result
PtsStore(t) ==
    /\ thr[t].pc = "pts_store"
    /\ cache' = [cache EXCEPT !.points = Put(cache.points, Cur(thr[t]), thr[t].PV)]
    /\ thr' = [thr EXCEPT ![t].pc = thr[t].ret]
    /\ UNCHANGED << out_file, finished, xf_calls, ui >>
    /\ UNCHANGED concFrame

\* line 124, right hand side
LinBuild(t) ==
    /\ thr[t].pc = "lin_build"
    /\ LET b == LinearNDInterpolator(thr[t].PV.P, thr[t].PV.V)
       IN  IF ~b.ok THEN Fail(t, b.err)
           ELSE Goto(t, [thr[t] EXCEPT !.obj = b.obj, !.pc = "lin_store"])
    /\ UNCHANGED concFrame

\* line 124, the assignment
LinStore(t) ==
    /\ thr[t].pc = "lin_store"
    /\ cache' = [cache EXCEPT !.linear = Put(cache.linear, Cur(thr[t]), thr[t].obj)]
    /\ thr' = [thr EXCEPT ![t].pc = "lin_get"]
    /\ UNCHANGED << out_file, finished, xf_calls, ui >>
    /\ UNCHANGED concFrame

\* line 125
LinGet(t) ==
    /\ thr[t].pc = "lin_get"
    /\ IF Cur(thr[t]) \in DOMAIN cache.linear
       THEN Goto(t, [thr[t] EXCEPT !.lin = cache.linear[Cur(thr[t])],
                                   !.pc = "eval"])
       ELSE Fail(t, "KeyError")
    /\ UNCHANGED concFrame

\* lines 140-143
Eval(t) ==
    /\ thr[t].pc = "eval"
    /\ LET z == [i \in 1 .. Len(thr[t].XY) |-> LinearEval(thr[t].lin, thr[t].XY[i])]
       IN  IF AnyNaN(z) THEN Goto(t, [thr[t] EXCEPT !.z = z, !.pc = "nn_check"])
           ELSE Goto(t, Returned(thr[t], z))
    /\ UNCHANGED concFrame

\* line 130: if surface_idx not in _interpolators_nearest
NnCheck(t) ==
    /\ thr[t].pc = "nn_check"
    /\ IF Cur(thr[t]) \in DOMAIN cache.nearest
       THEN Goto(t, [thr[t] EXCEPT !.pc = "nn_get"])
       ELSE Goto(t, [thr[t] EXCEPT !.pc = "pts_lookup", !.ret = "nn_build"])
    /\ UNCHANGED concFrame

\* line 132, right hand side
NnBuild(t) ==
    /\ thr[t].pc = "nn_build"
    /\ LET b == NearestNDInterpolator(thr[t].PV.P, thr[t].PV.V)
       IN  IF ~b.ok THEN Fail(t, b.err)
           ELSE Goto(t, [thr[t] EXCEPT !.obj = b.obj, !.pc = "nn_store"])
    /\ UNCHANGED concFrame

\* line 132, the assignment
NnStore(t) ==
    /\ thr[t].pc = "nn_store"
    /\ cache' = [cache EXCEPT !.nearest = Put(cache.nearest, Cur(thr[t]), thr[t].obj)]
    /\ thr' = [thr EXCEPT ![t].pc = "nn_get"]
    /\ UNCHANGED << out_file, finished, xf_calls, ui >>
    /\ UNCHANGED concFrame

\* line 133
NnGet(t) ==
    /\ thr[t].pc = "nn_get"
    /\ IF Cur(thr[t]) \in DOMAIN cache.nearest
       THEN Goto(t, [thr[t] EXCEPT !.nn = cache.nearest[Cur(thr[t])],
                                   !.pc = "fill"])
       ELSE Fail(t, "KeyError")
    /\ UNCHANGED concFrame

\* lines 145-147
Fill(t) ==
    /\ thr[t].pc = "fill"
    /\ LET z_nn == [i \in 1 .. Len(thr[t].XY) |->
                      NearestEval(thr[t].nn, thr[t].XY[i])]
       IN  Goto(t, Returned(thr[t], FillNaN(thr[t].z, z_nn)))
    /\ UNCHANGED concFrame

\* lines 169-177
Combine(t) ==
    /\ thr[t].pc = "combine"
    /\ LET l == thr[t]
       IN  IF l.kind = "DEPTH"
           THEN Goto(t, [l EXCEPT !.pc = "finish",
                    !.new = [i \in 1 .. Len(l.values) |->
                               DepthShift(l.values[i], l.H_in[i], l.H_out[i])]])
           ELSE IF l.kind = "ELLI_BED"
           THEN Goto(t, [l EXCEPT !.pc = "finish",
                    !.new = [i \in 1 .. Len(l.values) |->
                               BedToDepth(l.values[i], l.H_in[i], l.H_out[i])]])
           ELSE Fail(t, "ValueError")
    /\ UNCHANGED concFrame

\* lines 429-430: the window shows the new value
FinishSingle ==
    /\ thr["ui"].pc = "finish"
    /\ ui' = update_nick_labels(
                [ui EXCEPT !.lbl_single_out_val = Fmt4(thr["ui"].new[1])])
    /\ thr' = [thr EXCEPT !["ui"].pc = "done"]
    /\ UNCHANGED << cache, out_file, finished, xf_calls >>
    /\ UNCHANGED concFrame

\* lines 219-237: the worker writes the file and emits finished(True, ...)
FinishRun ==
    /\ thr["worker"].pc = "finish"
    /\ LET l == thr["worker"]
           n == Len(l.t.lon)
           new_full == IF SizePositive(Len(l.XY))
                       THEN MaskFill(n, l.idx_out, l.new)
                       ELSE [i \in 1 .. n |-> NaN]
       IN  /\ out_file' = Written(write_llvn(l.t.lon, l.t.lat, l.t.val, new_full))
           /\ finished' = finished \o << OkMessage(Len(l.idx_out)) >>
    /\ thr' = [thr EXCEPT !["worker"].pc = "done"]
    /\ UNCHANGED << cache, xf_calls, ui >>
    /\ UNCHANGED concFrame

NextConc ==
    \/ \E pt \in {<< 121, 23 >>, << 125, 21 >>} : ClickSingle(pt[1], pt[2], F(1))
    \/ RunBegin
    \/ \E t \in Threads : Interp(t)
    \/ \E t \in Threads : LinCheck(t)
    \/ \E t \in Threads : PtsLookup(t)
    \/ \E t \in Threads : PtsRead(t)
    \/ \E t \in Threads : PtsStore(t)
    \/ \E t \in Threads : LinBuild(t)
    \/ \E t \in Threads : LinStore(t)
    \/ \E t \in Threads : LinGet(t)
    \/ \E t \in Threads : Eval(t)
    \/ \E t \in Threads : NnCheck(t)
    \/ \E t \in Threads : NnBuild(t)
    \/ \E t \in Threads : NnStore(t)
    \/ \E t \in Threads : NnGet(t)
    \/ \E t \in Threads : Fill(t)
    \/ \E t \in Threads : Combine(t)
    \/ FinishSingle
    \/ FinishRun

SpecConc == InitConc /\ [][NextConc]_vars

\* ---------------------------------------------------------------- claims
\* the heights of surface s at XY as the data files alone determine them
HeightsFromFiles(s, XY) == interp_surface_with_fallback(files, NoCache, s, XY).val

IsTransform == call.op = "transform" /\ call.ok
Finite(x) == ~IsNaN(x)

\* C1: a transform that returns hands back the interpolated heights of the
\* input and of the output surface at the points, and for every index
\* new = value + (H_out - H_in) under DEPTH, new = H_out - value under ELLI_BED.
C1_TransformFormula ==
    IsTransform =>
        /\ call.kind \in {"DEPTH", "ELLI_BED"}
        /\ call.H_in = HeightsFromFiles(call.in, call.XY)
        /\ call.H_out = HeightsFromFiles(call.out, call.XY)
        /\ Len(call.new) = Len(call.values)
        /\ \A i \in 1 .. Len(call.values) :
              /\ call.kind = "DEPTH" =>
                    call.new[i] = FAdd(call.values[i],
                                       FSub(call.H_out[i], call.H_in[i]))
              /\ call.kind = "ELLI_BED" =>
                    call.new[i] = FSub(call.H_out[i], call.values[i])

C1_Witness ==
    /\ IsTransform /\ call.kind = "DEPTH" /\ call.in # call.out
    /\ Len(call.XY) = MaxPts
    /\ \E i \in 1 .. Len(call.XY) :
          /\ Finite(call.H_in[i]) /\ Finite(call.H_out[i])
          /\ call.H_in[i] # call.H_out[i]
          /\ call.new[i] # call.values[i]

\* C2 as stated: a DEPTH transform from a surface to itself returns the
\* values unchanged, for every surface and every point.
C2_SelfTransformAlways ==
    (IsTransform /\ call.in = call.out /\ call.kind = "DEPTH") =>
        call.new = call.values

\* C2 amended: a DEPTH transform from a surface to itself returns value i
\* unchanged wherever the height of the surface at point i is a number, and
\* NaN where that height is NaN.
C2_SelfTransform ==
    (IsTransform /\ call.in = call.out /\ call.kind = "DEPTH") =>
        \A i \in 1 .. Len(call.values) :
            IF Finite(call.H_in[i]) THEN call.new[i] = call.values[i]
                                   ELSE IsNaN(call.new[i])

C2_Witness ==
    /\ IsTransform /\ call.in = call.out /\ call.kind = "DEPTH"
    /\ call.in # Ellipsoid
    /\ Len(call.XY) = MaxPts
    /\ \E i \in 1 .. Len(call.XY) : call.H_in[i] # F(0)
    /\ call.new = call.values

IsRoundTrip == orig.op = "transform"

\* C3 as stated: A -> B followed by B -> A under DEPTH returns the original
\* values (here only asked where every height involved is a number).
C3_RoundTripExact ==
    (/\ IsRoundTrip
     /\ \A i \in 1 .. Len(orig.values) :
           Finite(orig.H_in[i]) /\ Finite(orig.H_out[i])) =>
        (call.ok /\ call.new = orig.values)

\* C3 amended: the reverse transform finds the same two heights, fresh or
\* cached, so its offset is the exact negation of the forward offset wherever
\* both heights are numbers; the original value comes back wherever in
\* addition the forward sum value + offset needed no rounding, and NaN comes
\* back where a height is NaN.
C3_RoundTrip ==
    IsRoundTrip =>
        /\ call.ok
        /\ call.H_in = orig.H_out
        /\ call.H_out = orig.H_in
        /\ \A i \in 1 .. Len(orig.values) :
              LET fwd == FSub(orig.H_out[i], orig.H_in[i])
                  bwd == FSub(call.H_out[i], call.H_in[i])
              IN  IF Finite(orig.H_in[i]) /\ Finite(orig.H_out[i])
                  THEN /\ bwd = FNeg(fwd)
                       /\ Representable(orig.values[i][1] + fwd[1]) =>
                              call.new[i] = orig.values[i]
                  ELSE IsNaN(call.new[i])

C3_Witness ==
    /\ IsRoundTrip /\ call.ok
    /\ orig.in # orig.out /\ orig.in # Ellipsoid /\ orig.out # Ellipsoid
    /\ Len(orig.XY) = MaxPts
    /\ \A i \in 1 .. Len(orig.XY) : orig.new[i] # orig.values[i]
    /\ call.new = orig.values

IsZeros(z, n) == Len(z) = n /\ \A i \in 1 .. n : z[i] = F(0)

\* C4: a height query of the Ellipsoid returns 0 at every point and leaves the
\* point cache and both interpolator caches as they were, whatever they hold
\* and whatever files exist; so does each Ellipsoid side of a transform.
C4_EllipsoidZero ==
    [][ /\ (call'.op = "height" /\ call'.s = Ellipsoid) =>
              /\ call'.ok /\ IsZeros(call'.z, Len(call'.XY))
              /\ cache' = cache
        /\ (call'.op = "transform" /\ call'.in = Ellipsoid
                                   /\ call'.out = Ellipsoid) =>
              /\ call'.kind \in {"DEPTH", "ELLI_BED"} => call'.ok
              /\ cache' = cache
        /\ (call'.op = "transform" /\ call'.ok /\ call'.in = Ellipsoid) =>
              /\ IsZeros(call'.H_in, Len(call'.XY))
              /\ Ellipsoid \notin DOMAIN cache'.points
        /\ (call'.op = "transform" /\ call'.ok /\ call'.out = Ellipsoid) =>
              /\ IsZeros(call'.H_out, Len(call'.XY))
              /\ Ellipsoid \notin DOMAIN cache'.points
      ]_vars

C4_Witness ==
    /\ call.op = "transform" /\ call.ok
    /\ call.in = Ellipsoid /\ call.out = Ellipsoid
    /\ cache.linear # EmptyDict /\ cache.nearest # EmptyDict
    /\ IsZeros(call.H_in, MaxPts)

\* C6 as stated: under both value kinds a NaN in H_in or in H_out makes the
\* new value NaN.
C6_NaNEitherHeight ==
    IsTransform =>
        \A i \in 1 .. Len(call.values) :
            (IsNaN(call.H_in[i]) \/ IsNaN(call.H_out[i])) => IsNaN(call.new[i])

\* C6 amended: under DEPTH a NaN in H_in or in H_out makes the new value NaN;
\* under ELLI_BED a NaN in H_out does, while H_in is not part of the formula
\* and the new value is H_out - value whatever H_in is.
C6_NaNPropagation ==
    IsTransform =>
        \A i \in 1 .. Len(call.values) :
            /\ (call.kind = "DEPTH"
                  /\ (IsNaN(call.H_in[i]) \/ IsNaN(call.H_out[i]))) =>
                  IsNaN(call.new[i])
            /\ (call.kind = "ELLI_BED" /\ IsNaN(call.H_out[i])) =>
                  IsNaN(call.new[i])
            /\ (call.kind = "ELLI_BED" /\ Finite(call.H_out[i])) =>
                  call.new[i] = FSub(call.H_out[i], call.values[i])

C6_Witness ==
    /\ IsTransform /\ call.kind = "DEPTH"
    /\ \E i \in 1 .. Len(call.values) :
          /\ IsNaN(call.H_in[i]) /\ Finite(call.H_out[i])
          /\ IsNaN(call.new[i])

\* the control points of file s
ControlPoints(s) == read_llv_from_file(files[s])

\* the piecewise linear value at q where three control points span a hull
\* that holds q, NaN elsewhere
Primary(s, q) ==
    LET t == ControlPoints(s)
        P == [i \in 1 .. Len(t.lon) |-> << t.lon[i], t.lat[i] >>]
        b == LinearNDInterpolator(P, t.val)
    IN  IF b.ok THEN LinearEval(b.obj, q) ELSE NaN

NearestHeight(s, q) ==
    LET t == ControlPoints(s)
        P == [i \in 1 .. Len(t.lon) |-> << t.lon[i], t.lat[i] >>]
    IN  NearestEval([P |-> P, V |-> t.val], q)

\* C9: a height query of a surface with at least one control point (all of
\* them numbers) returns, at each point, the linear value where it is defined
\* and the height of the nearest control point elsewhere, never NaN; with a
\* single control point that is this point's height everywhere.
C9_FallbackPolicy ==
    (/\ call.op = "height" /\ call.s # Ellipsoid
     /\ files[call.s].exists
     /\ Len(ControlPoints(call.s).val) >= 1
     /\ \A k \in 1 .. Len(ControlPoints(call.s).val) :
           Finite(ControlPoints(call.s).val[k])) =>
        /\ call.ok
        /\ \A i \in 1 .. Len(call.XY) :
              /\ Finite(call.z[i])
              /\ call.z[i] = IF Finite(Primary(call.s, call.XY[i]))
                             THEN Primary(call.s, call.XY[i])
                             ELSE NearestHeight(call.s, call.XY[i])

\* ------------------------------------------------- claims on the bulk run
RunDone == worker.started /\ worker.done
Succeeded == RunDone /\ Len(finished) = 1 /\ finished[1].success

\* the rows parsed from the input file
Rows == SelectSeq(in_file.lines, GoodLine)

\* row i lies in the closed envelope 118..125 E, 21..27 N
Inside(i) ==
    /\ 118 <= Rows[i].lon /\ Rows[i].lon <= 125
    /\ 21 <= Rows[i].lat /\ Rows[i].lat <= 27

InsideRows == { i \in 1 .. Len(Rows) : Inside(i) }

\* the transform of row i taken alone, by a process that has cached nothing
AloneTransform(i) ==
    transform_values(files, NoCache, worker.input_surface_idx,
                     worker.output_surface_idx, << Rows[i].lon >>,
                     << Rows[i].lat >>, << Rows[i].v >>,
                     worker.input_value_type)

\* C5: a successful run writes one row per parsed input row, in input order;
\* the fourth column of row i is the transform of row i's value when the point
\* is in the closed envelope and NaN otherwise; transform_values is called at
\* most once, with the rows inside the envelope only, and not at all when no
\* row is inside.
C5_BulkRangeFilter ==
    Succeeded =>
        /\ out_file.exists
        /\ Len(out_file.rows) = Len(Rows)
        /\ \A i \in 1 .. Len(Rows) :
              /\ out_file.rows[i].lon = Fmt7(Rows[i].lon)
              /\ out_file.rows[i].lat = Fmt7(Rows[i].lat)
              /\ out_file.rows[i].v1 = Fmt3(Rows[i].v)
              /\ IF Inside(i)
                 THEN /\ AloneTransform(i).ok
                      /\ out_file.rows[i].v2 = Fmt3(AloneTransform(i).val.new[1])
                 ELSE out_file.rows[i].v2 = Fmt3(NaN)
        /\ IF InsideRows = {} THEN xf_calls = << >>
           ELSE /\ Len(xf_calls) = 1
                /\ Len(xf_calls[1].lon) = Cardinality(InsideRows)
                /\ \A k \in 1 .. Len(xf_calls[1].lon) :
                      /\ 118 <= xf_calls[1].lon[k] /\ xf_calls[1].lon[k] <= 125
                      /\ 21 <= xf_calls[1].lat[k] /\ xf_calls[1].lat[k] <= 27

C5_Witness ==
    /\ Succeeded
    /\ Len(Rows) = MaxRows
    /\ \E i \in 1 .. Len(Rows) :
          /\ Inside(i)
          /\ Rows[i].lon \in {118, 125} /\ Rows[i].lat \in {21, 27}
          /\ out_file.rows[i].v2.text # "NaN"
    /\ \E i \in 1 .. Len(Rows) : ~Inside(i) /\ out_file.rows[i].v2.text = "NaN"

\* a surface the run has to interpolate cannot be built from its file
EngineFails ==
    /\ InsideRows # {}
    /\ LET XY == << << Rows[1].lon, Rows[1].lat >> >>
       IN  \/ ~interp_surface_with_fallback(files, NoCache,
                    worker.input_surface_idx, XY).ok
           \/ ~interp_surface_with_fallback(files, NoCache,
                    worker.output_surface_idx, XY).ok

SurfaceFileMissing ==
    /\ InsideRows # {}
    /\ \E s \in {worker.input_surface_idx, worker.output_surface_idx} :
          s # Ellipsoid /\ ~files[s].exists

\* C7: a run emits exactly one finished signal; it reports failure when the
\* input cannot be read or has no usable row, when a surface file that is
\* needed is missing, and on any other exception, and writes no output file
\* when the failure comes before the writing; else it reports success, and
\* the message carries the number of rows outside the envelope when there is
\* at least one.
C7_OneFinishedSignal ==
    RunDone =>
        /\ Len(finished) = 1
        /\ finished[1].success <=>
              (/\ in_file.exists /\ Len(Rows) > 0
               /\ ~EngineFails /\ disk = "ok")
        /\ (~in_file.exists \/ Len(Rows) = 0 \/ EngineFails \/ disk = "readonly")
              => ~out_file.exists
        /\ (in_file.exists /\ Len(Rows) = 0) =>
              finished[1].text = "Input file is empty or invalid."
        /\ SurfaceFileMissing =>
              ~finished[1].success /\ finished[1].text = "Error: "
        /\ finished[1].success =>
              /\ out_file.exists
              /\ finished[1].n = Len(Rows) - Cardinality(InsideRows)
              /\ finished[1].text =
                    IF finished[1].n = 0 THEN "OK!"
                    ELSE IF finished[1].n = 1
                         THEN "OK!  (There is 1 point outside the range)"
                         ELSE "OK!  (There are N points outside the range)"

C7_Witness ==
    /\ RunDone /\ Len(finished) = 1
    /\ ~finished[1].success
    /\ finished[1].err = "FileNotFoundError"
    /\ in_file.exists /\ InsideRows # {}
    /\ SurfaceFileMissing
    /\ ~out_file.exists

\* ------------------------------------------------ claims on the two threads
\* the complete control point set of surface s, as load_surface_points shapes it
PointsOf(s) ==
    LET d == ControlPoints(s)
    IN  [P |-> [i \in 1 .. Len(d.lon) |-> << d.lon[i], d.lat[i] >>], V |-> d.val]

\* what the call of thread t returns when nothing else runs
Sequential(t) ==
    transform_values(files, NoCache, thr[t].in, thr[t].out, Lon(thr[t].XY),
                     Lat(thr[t].XY), thr[t].values, thr[t].kind)

InCore(t) == thr[t].pc \notin {"idle", "run"} /\ Len(thr[t].XY) > 0

\* C8: however the window's thread and the worker interleave in the unlocked
\* check-then-build, every slot of the three caches holds, for its surface s,
\* what is built from the complete control point set of s (never a part of
\* it, never another surface's), and every call returns the heights, the new
\* values or the exception that it returns when run alone.
C8_CacheRace ==
    /\ \A s \in DOMAIN cache.points :
          s \in FileIdx /\ files[s].exists /\ cache.points[s] = PointsOf(s)
    /\ \A s \in DOMAIN cache.linear :
          /\ s \in FileIdx /\ files[s].exists
          /\ LinearNDInterpolator(PointsOf(s).P, PointsOf(s).V).ok
          /\ cache.linear[s] = PointsOf(s)
    /\ \A s \in DOMAIN cache.nearest :
          s \in FileIdx /\ files[s].exists /\ cache.nearest[s] = PointsOf(s)
    /\ \A t \in Threads :
          InCore(t) =>
              /\ (thr[t].err = "" /\ (thr[t].side = "out" \/ thr[t].pc \in {"finish", "done"})) =>
                    /\ interp_surface_with_fallback(files, NoCache, thr[t].in,
                                                    thr[t].XY).ok
                    /\ thr[t].H_in = HeightsFromFiles(thr[t].in, thr[t].XY)
              /\ (thr[t].err = "" /\ thr[t].pc \in {"finish", "done"}) =>
                    /\ Sequential(t).ok
                    /\ thr[t].H_in = Sequential(t).val.H_in
                    /\ thr[t].H_out = Sequential(t).val.H_out
                    /\ thr[t].new = Sequential(t).val.new
              /\ thr[t].err # "" =>
                    ~Sequential(t).ok /\ Sequential(t).err = thr[t].err

\* both threads have built the linear interpolant of the same surface and
\* are about to store it
C8_Witness ==
    /\ thr["ui"].pc = "lin_store" /\ thr["worker"].pc = "lin_store"
    /\ Cur(thr["ui"]) = Cur(thr["worker"])
    /\ Cur(thr["ui"]) \notin DOMAIN cache.linear

====
